---- MODULE Spec2Model ----
(***************************************************************************)
(* Vectorized-environment execution core of harl/envs/env_wrappers.py:     *)
(* shareworker, ShareVecEnv, ShareSubprocVecEnv and ShareDummyVecEnv,      *)
(* driven by a caller that may issue the public calls in any order.        *)
(***************************************************************************)
EXTENDS Integers, Sequences, FiniteSets, TLC

\* ------------------------------------------------------------------ bounds
NumEnvs == 2
NAgents == 2
EpisodeLimit == 2
MaxCalls == EpisodeLimit + 1
\* stack_padded_tensors_last_axis: how many tensors it is handed, the largest
\* extent of a last dimension, the largest extent of the dimension they share.
MaxTensors == 3
MaxLast == 5
MaxRows == 2

Envs == 1..NumEnvs
Agents == 1..NAgents

\* The action batches the caller may pass: the action at position i names both
\* the position and the batch (i in batch 0, NumEnvs + i in batch 1).
Batches == { [i \in Envs |-> i + b * NumEnvs] : b \in {0, 1} }

VARIABLES
    backend,     \* "subproc" | "dummy" | "both": which vectorized environment is built;
                 \* "worker": the worker loops alone; "pad": the stacking utility alone
                 \* "ctor": the constructor of the subprocess backend runs;
                 \* "mujoco": MujocoMulti instances alone
    doneKind,    \* "scalar" | "peragent": the done representation of the instances
    envReuse,    \* TRUE when an instance hands out its live buffers, which reset overwrites
    waiting,     \* ShareSubprocVecEnv.waiting
    closed,      \* ShareSubprocVecEnv.closed
    pc,          \* where the orchestrator thread is: "idle" or inside a blocking call
    idx,         \* the channel the orchestrator receives from (or joins) next
    acc,         \* the replies received so far by the running call
    toWorker,    \* per channel: commands sent and not yet read by the worker
    toOrch,      \* per channel: replies sent and not yet read by the orchestrator
    wenv,        \* per worker: its environment instance
    wstate,      \* per worker: "running" | "exited" | the exception that ended it
                 \* ("EnvError", "EnvErrorHeld": raised by the instance)
    actions,     \* ShareDummyVecEnv.actions ("None" or a batch)
    envs,        \* ShareDummyVecEnv.envs
    ret,         \* what the last call on ShareSubprocVecEnv returned or raised
    d_ret,       \* what the last call on ShareDummyVecEnv returned or raised
    ncalls,      \* calls issued so far
    lastCall,    \* the call issued last
    prevCall,    \* the call issued before it
    awaitAtCall, \* whether a step_async was outstanding when the last call was issued
    expect,      \* what step_async(a); step_wait() returns from the state of the last step/step_async
    scen,        \* step() calls completed since a reset() on quiet channels, -1 otherwise
    padIn,       \* the tensors handed to stack_padded_tensors_last_axis
    padArgs,     \* its padding_value argument: <<>> when left out, <<v>> when given
    padOut,      \* what it returned, <<>> before the call
    n_agents,    \* ShareSubprocVecEnv.n_agents, 0 before it is set
    spaces,      \* (observation_space, share_observation_space, action_space) of
                 \* the vectorized environment, <<>> before they are set
    wkind,       \* per worker: the kind of instance its env_fn builds; the kind
                 \* fixes the instance's n_agents and its three spaces
    menv,        \* per MujocoMulti instance: its steps attribute (Unset until
                 \* reset assigns it) and its TimeLimit's _elapsed_steps
    m_out,       \* per instance: what the last call on it returned or raised
    m_since,     \* per instance: step() calls on it since its last reset()
                 \* (since construction before the first)
    m_n,         \* per instance: calls made on it so far
    m_wrapped    \* per instance: done_n and reward_n of the wrapped_env.step made
                 \* by the last call on it, NoReport when that call made none

cfgVars == <<backend, doneKind, envReuse>>
subVars == <<waiting, closed, pc, idx, acc, toWorker, toOrch, wenv, wstate, ret>>
dummyVars == <<actions, envs, d_ret>>
callVars == <<ncalls, lastCall, prevCall, awaitAtCall, expect, scen>>
padVars == <<padIn, padArgs, padOut>>
ctorVars == <<n_agents, spaces, wkind>>
mujVars == <<menv, m_out, m_since, m_n, m_wrapped>>
sideVars == <<padVars, ctorVars, mujVars>>
vars == <<cfgVars, subVars, dummyVars, callVars, sideVars>>

\* ------------------------------------------------- single-environment contract
\* One instance: steps since its last reset, resets so far, close() calls so
\* far, and the calls made on it, in order.
EnvNew == [steps |-> 0, resets |-> 0, closes |-> 0, log |-> <<>>]

\* A value an instance produced: field f of instance i in episode ep at step t.
Val(f, i, e) == [ref |-> FALSE, f |-> f, inst |-> i, ep |-> e.resets, t |-> e.steps]

\* An alias of the buffer that holds field f of instance i.
Ref(f, i) == [ref |-> TRUE, f |-> f, inst |-> i, ep |-> 0, t |-> 0]

\* What the holder of x sees when the buffer holds the values of state e.
Materialize(x, e) == IF x.ref THEN Val(x.f, x.inst, e) ELSE x

EnvOut(f, i, e) == IF envReuse THEN Ref(f, i) ELSE Val(f, i, e)

\* done of an instance in state e: the episode ends at EpisodeLimit steps; in the
\* per-agent form agent 1 is done one step before the others.
EnvDone(e) ==
    IF doneKind = "scalar"
    THEN [kind |-> "scalar", v |-> (e.steps >= EpisodeLimit)]
    ELSE [kind |-> "peragent",
          v |-> [a \in Agents |-> IF a = 1 THEN e.steps >= EpisodeLimit - 1
                                           ELSE e.steps >= EpisodeLimit]]

EnvStep(e) == [e EXCEPT !.steps = @ + 1, !.log = Append(@, "step")]

\* (obs, shared_obs, reward, done, info, available_actions) of a step with action
\* a that left the instance in state e; info is the record of agent 0.
EnvStepOut(i, e, a) ==
    << EnvOut("obs", i, e), EnvOut("state", i, e),
       [f |-> "reward", inst |-> i, ep |-> e.resets, t |-> e.steps, act |-> a],
       EnvDone(e),
       [step |-> [inst |-> i, ep |-> e.resets, t |-> e.steps, act |-> a]],
       EnvOut("avail", i, e) >>

EnvReset(e) == [e EXCEPT !.steps = 0, !.resets = @ + 1, !.log = Append(@, "reset")]

\* (obs, shared_obs, available_actions) of a reset that left the instance in state e.
EnvResetOut(i, e) == << EnvOut("obs", i, e), EnvOut("state", i, e), EnvOut("avail", i, e) >>

\* env.n_agents and (env.observation_space, env.share_observation_space,
\* env.action_space) of an instance of kind k.
EnvNAgents(k) == k
EnvSpaces(k) == << [space |-> "observation_space", kind |-> k],
                   [space |-> "share_observation_space", kind |-> k],
                   [space |-> "action_space", kind |-> k] >>

EnvClose(e) == [e EXCEPT !.closes = @ + 1, !.log = Append(@, "close")]

\* ------------------------------------------------------- auto-reset policy
\* No copy: the alias itself is stored.
NoDeepCopy(x, e) == x

\* copy.deepcopy(x) taken while the buffers hold the values of state e.
DeepCopy(x, e) == Materialize(x, e)

\* A done test that never finds the episode over.
TerminatedNever(done) == FALSE

\* np.any in place of np.all.
TerminatedAny(done) ==
    IF done.kind = "scalar" THEN done.v ELSE \E a \in DOMAIN done.v : done.v[a]

\* The test both backends make on done: a bool by its class name, np.all otherwise.
Terminated(done) ==
    IF done.kind = "scalar" THEN done.v ELSE \A a \in DOMAIN done.v : done.v[a]

\* info[0] with the three original_* keys set.
AddOriginal(info, ob, sob, av) ==
    [k \in (DOMAIN info) \cup {"original_obs", "original_state", "original_avail_actions"} |->
        IF k = "original_obs" THEN ob
        ELSE IF k = "original_state" THEN sob
        ELSE IF k = "original_avail_actions" THEN av
        ELSE info[k]]

\* The info record as its holder sees it while the buffers hold the values of e.
MaterializeInfo(info, e) ==
    [k \in DOMAIN info |-> IF k = "step" THEN info[k] ELSE Materialize(info[k], e)]

\* remote.send of a step result: the tuple is pickled as it is at the send.
SendStep(tup, e) ==
    << Materialize(tup[1], e), Materialize(tup[2], e), tup[3], tup[4],
       MaterializeInfo(tup[5], e), Materialize(tup[6], e) >>

SendReset(tup, e) ==
    << Materialize(tup[1], e), Materialize(tup[2], e), Materialize(tup[3], e) >>

\* The step's own outputs handed back even when the episode terminated.
StepTupleNoSubst(term, out, info1, rs) ==
    <<out[1], out[2], out[3], out[4], info1, out[6]>>

\* The step result handed back: the reset's observation, shared observation and
\* available actions when the step terminated the episode, the step's otherwise;
\* reward, done and info are the step's in both cases.
StepTuple(term, out, info1, rs) ==
    IF term THEN <<rs[1], rs[2], out[3], out[4], info1, rs[3]>>
            ELSE <<out[1], out[2], out[3], out[4], info1, out[6]>>

\* The "step" branch of shareworker on instance i in state e with action a: the
\* instance afterwards and the reply sent.
WorkerStepExec(i, e, a) ==
    LET e1 == EnvStep(e)
        out == EnvStepOut(i, e1, a)
        term == Terminated(out[4])
        info1 == IF term
                 THEN AddOriginal(out[5], DeepCopy(out[1], e1), DeepCopy(out[2], e1),
                                  DeepCopy(out[6], e1))
                 ELSE out[5]
        e2 == IF term THEN EnvReset(e1) ELSE e1
        rs == EnvResetOut(i, e2)
        tup == StepTuple(term, out, info1, rs)
    IN [env |-> e2, reply |-> SendStep(tup, e2)]

\* A "reset" branch that replies without resetting the instance.
WorkerResetExecStale(i, e) ==
    [env |-> e, reply |-> SendReset(EnvResetOut(i, e), e)]

\* The "reset" branch of shareworker.
WorkerResetExec(i, e) ==
    LET e1 == EnvReset(e)
    IN [env |-> e1, reply |-> SendReset(EnvResetOut(i, e1), e1)]

\* ---------------------------------------------------------------- returns
NoRet == [kind |-> "none", err |-> "", val |-> <<>>]
Ok(v) == [kind |-> "ok", err |-> "", val |-> v]
Raise(e) == [kind |-> "error", err |-> e, val |-> <<>>]

RECURSIVE MinLen(_, _)
MinLen(results, n) ==
    IF n = 1 THEN Len(results[1])
    ELSE LET m == MinLen(results, n - 1)
         IN IF Len(results[n]) < m THEN Len(results[n]) ELSE m

\* a, b, ... = zip(*results) with k names on the left: the k batched fields, or
\* the ValueError of an unpacking that does not fit.
Unzip(results, k) ==
    IF MinLen(results, Len(results)) = k
    THEN Ok([j \in 1..k |-> [i \in 1..Len(results) |-> results[i][j]]])
    ELSE Raise("ValueError")

\* ------------------------------------------------------ ShareSubprocVecEnv
Running(i) == wstate[i] = "running"

\* The worker end of pipe i is open in some process: the worker runs, or it
\* died on an exception while the other workers, which were started with a copy
\* of every pipe end, still hold it open. A send on such a pipe succeeds and a
\* recv on it blocks; once no process holds the end, send raises BrokenPipeError
\* and recv raises EOFError.
Connected(i) == wstate[i] \in {"running", "EnvErrorHeld"}

\* The first channel whose worker end is closed, NumEnvs + 1 when there is none:
\* a send loop delivers to the channels before it and raises there.
FirstDead == IF \A i \in Envs : Connected(i) THEN NumEnvs + 1
             ELSE CHOOSE i \in Envs : ~Connected(i) /\ \A j \in Envs : j < i => Connected(j)

\* A send loop that stops before the last channel.
SendAllButLast(cmds) ==
    toWorker' = [i \in Envs |-> IF i < FirstDead /\ i < NumEnvs
                                THEN Append(toWorker[i], cmds[i]) ELSE toWorker[i]]

\* for remote in self.remotes: remote.send(cmds[i])
SendAll(cmds) ==
    toWorker' = [i \in Envs |-> IF i < FirstDead THEN Append(toWorker[i], cmds[i])
                                                  ELSE toWorker[i]]

\* The step command sent with the batch mirrored: channel i gets the action of
\* position NumEnvs + 1 - i.
StepCmdMirrored(a, i) == [tag |-> "step", data |-> a[NumEnvs + 1 - i]]

\* ("step", action) for channel i: zip(self.remotes, actions) pairs them by position.
StepCmd(a, i) == [tag |-> "step", data |-> a[i]]
ResetCmd(i) == [tag |-> "reset", data |-> 0]
CloseCmd(i) == [tag |-> "close", data |-> 0]

\* ShareSubprocVecEnv.step_async
SubStepAsync(a) ==
    /\ SendAll([i \in Envs |-> StepCmd(a, i)])
    /\ IF FirstDead <= NumEnvs
       THEN ret' = Raise("BrokenPipeError") /\ UNCHANGED waiting
       ELSE ret' = Ok(<<>>) /\ waiting' = TRUE
    /\ UNCHANGED <<closed, pc, idx, acc, toOrch, wenv, wstate>>

\* step that returns after step_async, without step_wait.
SubStepNoWait(a) == SubStepAsync(a)

\* ShareVecEnv.step on ShareSubprocVecEnv: step_async, then into step_wait
\* unless step_async raised.
SubStep(a) ==
    /\ SendAll([i \in Envs |-> StepCmd(a, i)])
    /\ IF FirstDead <= NumEnvs
       THEN ret' = Raise("BrokenPipeError") /\ UNCHANGED <<waiting, pc>>
       ELSE ret' = NoRet /\ waiting' = TRUE /\ pc' = "step_wait"
    /\ idx' = 1 /\ acc' = <<>>
    /\ UNCHANGED <<closed, toOrch, wenv, wstate>>

\* ShareSubprocVecEnv.step_wait up to its first recv.
SubStepWait ==
    /\ pc' = "step_wait" /\ idx' = 1 /\ acc' = <<>> /\ ret' = NoRet
    /\ UNCHANGED <<waiting, closed, toWorker, toOrch, wenv, wstate>>

\* ShareSubprocVecEnv.reset up to its first recv.
SubReset ==
    /\ SendAll([i \in Envs |-> ResetCmd(i)])
    /\ IF FirstDead <= NumEnvs
       THEN ret' = Raise("BrokenPipeError") /\ UNCHANGED pc
       ELSE ret' = NoRet /\ pc' = "reset"
    /\ idx' = 1 /\ acc' = <<>>
    /\ UNCHANGED <<waiting, closed, toOrch, wenv, wstate>>

\* close that sends its close commands without draining the pending replies.
SubCloseNoDrain ==
    /\ idx' = 1 /\ acc' = <<>>
    /\ SendAll([i \in Envs |-> [tag |-> "close", data |-> 0]])
    /\ ret' = NoRet /\ pc' = "close_join"
    /\ UNCHANGED <<waiting, closed, toOrch, wenv, wstate>>

\* ShareSubprocVecEnv.close past its closed test, up to its first recv or join.
SubCloseBody ==
    /\ idx' = 1 /\ acc' = <<>>
    /\ IF waiting
       THEN pc' = "close_drain" /\ ret' = NoRet /\ UNCHANGED toWorker
       ELSE /\ SendAll([i \in Envs |-> CloseCmd(i)])
            /\ IF FirstDead <= NumEnvs
               THEN ret' = Raise("BrokenPipeError") /\ UNCHANGED pc
               ELSE ret' = NoRet /\ pc' = "close_join"
    /\ UNCHANGED <<waiting, closed, toOrch, wenv, wstate>>

\* close without its closed test.
SubCloseAlways == SubCloseBody

\* ShareSubprocVecEnv.close: nothing when closed already.
SubClose ==
    IF closed
    THEN ret' = Ok(<<>>)
         /\ UNCHANGED <<waiting, closed, pc, idx, acc, toWorker, toOrch, wenv, wstate>>
    ELSE SubCloseBody

\* A receive loop that stops one channel short of the last.
MoreToRecvShort(k) == k < NumEnvs - 1

\* `for remote in self.remotes`: after channel k the receive loop has more
\* channels to receive from.
MoreToRecv(k) == k < NumEnvs

\* A receive loop that takes its k-th reply from whichever channel has one ready.
RecvChanReady(k) ==
    IF toOrch[k] = <<>> /\ \E i \in Envs : toOrch[i] # <<>>
    THEN CHOOSE i \in Envs : toOrch[i] # <<>>
    ELSE k

\* `[remote.recv() for remote in self.remotes]`: the k-th recv of a receive loop
\* is on channel k, whatever the other channels hold.
RecvChan(k) == k

\* remote.recv() on channel idx can complete: a reply is there, or the worker
\* end is closed and recv raises EOFError.
CanRecv == toOrch[RecvChan(idx)] # <<>> \/ ~Connected(RecvChan(idx))

\* One recv of step_wait; the last one clears waiting and unpacks the replies.
RecvStepWait ==
    /\ pc = "step_wait" /\ CanRecv
    /\ IF toOrch[RecvChan(idx)] = <<>>
       THEN /\ ret' = Raise("EOFError") /\ pc' = "idle" /\ idx' = 1 /\ acc' = <<>>
            /\ scen' = -1
            /\ UNCHANGED <<waiting, toOrch>>
       ELSE /\ toOrch' = [toOrch EXCEPT ![RecvChan(idx)] = Tail(@)]
            /\ IF MoreToRecv(idx)
               THEN /\ idx' = idx + 1 /\ acc' = Append(acc, Head(toOrch[RecvChan(idx)]))
                    /\ UNCHANGED <<waiting, pc, ret, scen>>
               ELSE /\ waiting' = FALSE
                    /\ ret' = Unzip(Append(acc, Head(toOrch[RecvChan(idx)])), 6)
                    /\ scen' = IF lastCall = "step" /\ scen >= 0 /\ ret'.kind = "ok"
                               THEN scen + 1 ELSE -1
                    /\ pc' = "idle" /\ idx' = 1 /\ acc' = <<>>
    /\ UNCHANGED <<closed, toWorker, wenv, wstate>>
    /\ UNCHANGED <<cfgVars, sideVars, dummyVars, ncalls, lastCall, prevCall, awaitAtCall, expect>>

\* One recv of reset; the last one unpacks the replies.
RecvReset ==
    /\ pc = "reset" /\ CanRecv
    /\ IF toOrch[RecvChan(idx)] = <<>>
       THEN /\ ret' = Raise("EOFError") /\ pc' = "idle" /\ idx' = 1 /\ acc' = <<>>
            /\ scen' = -1
            /\ UNCHANGED toOrch
       ELSE /\ toOrch' = [toOrch EXCEPT ![RecvChan(idx)] = Tail(@)]
            /\ IF MoreToRecv(idx)
               THEN /\ idx' = idx + 1 /\ acc' = Append(acc, Head(toOrch[RecvChan(idx)]))
                    /\ UNCHANGED <<pc, ret, scen>>
               ELSE /\ ret' = Unzip(Append(acc, Head(toOrch[RecvChan(idx)])), 3)
                    /\ scen' = IF ret'.kind = "ok" THEN scen ELSE -1
                    /\ pc' = "idle" /\ idx' = 1 /\ acc' = <<>>
    /\ UNCHANGED <<waiting, closed, toWorker, wenv, wstate>>
    /\ UNCHANGED <<cfgVars, sideVars, dummyVars, ncalls, lastCall, prevCall, awaitAtCall, expect>>

\* One recv of the drain loop of close; after the last one close is sent on
\* every channel.
RecvCloseDrain ==
    /\ pc = "close_drain" /\ CanRecv
    /\ IF toOrch[RecvChan(idx)] = <<>>
       THEN /\ ret' = Raise("EOFError") /\ pc' = "idle" /\ idx' = 1
            /\ UNCHANGED <<toOrch, toWorker>>
       ELSE /\ toOrch' = [toOrch EXCEPT ![RecvChan(idx)] = Tail(@)]
            /\ IF MoreToRecv(idx)
               THEN idx' = idx + 1 /\ UNCHANGED <<pc, ret, toWorker>>
               ELSE /\ idx' = 1 /\ SendAll([i \in Envs |-> CloseCmd(i)])
                    /\ IF FirstDead <= NumEnvs
                       THEN ret' = Raise("BrokenPipeError") /\ pc' = "idle"
                       ELSE pc' = "close_join" /\ UNCHANGED ret
    /\ UNCHANGED <<waiting, closed, acc, wenv, wstate>>
    /\ UNCHANGED <<cfgVars, sideVars, dummyVars, callVars>>

\* The join loop of close without the final self.closed = True.
JoinCloseNoFlag ==
    /\ pc = "close_join" /\ ~Running(idx)
    /\ IF idx < NumEnvs
       THEN idx' = idx + 1 /\ UNCHANGED <<pc, ret>>
       ELSE idx' = 1 /\ pc' = "idle" /\ ret' = Ok(<<>>)
    /\ UNCHANGED <<closed, waiting, acc, toWorker, toOrch, wenv, wstate>>
    /\ UNCHANGED <<cfgVars, sideVars, dummyVars, callVars>>

\* p.join() of process idx in close; after the last one closed is set.
JoinClose ==
    /\ pc = "close_join" /\ ~Running(idx)
    /\ IF idx < NumEnvs
       THEN idx' = idx + 1 /\ UNCHANGED <<pc, ret, closed>>
       ELSE idx' = 1 /\ pc' = "idle" /\ ret' = Ok(<<>>) /\ closed' = TRUE
    /\ UNCHANGED <<waiting, acc, toWorker, toOrch, wenv, wstate>>
    /\ UNCHANGED <<cfgVars, sideVars, dummyVars, callVars>>

\* ---------------------------------------------------------------- shareworker
WorkerHas(i, tag) ==
    Running(i) /\ toWorker[i] # <<>> /\ Head(toWorker[i]).tag = tag

\* One iteration of the worker loop on a "step" command.
WorkerStep(i) ==
    /\ WorkerHas(i, "step")
    /\ LET r == WorkerStepExec(i, wenv[i], Head(toWorker[i]).data)
       IN /\ wenv' = [wenv EXCEPT ![i] = r.env]
          /\ toOrch' = [toOrch EXCEPT ![i] = Append(@, r.reply)]
    /\ toWorker' = [toWorker EXCEPT ![i] = Tail(@)]
    /\ UNCHANGED <<waiting, closed, pc, idx, acc, wstate, ret>>
    /\ UNCHANGED <<cfgVars, sideVars, dummyVars, callVars>>

\* A "reset" iteration that resets the instance and sends nothing back.
WorkerResetSilent(i) ==
    /\ WorkerHas(i, "reset")
    /\ wenv' = [wenv EXCEPT ![i] = WorkerResetExec(i, wenv[i]).env]
    /\ toWorker' = [toWorker EXCEPT ![i] = Tail(@)]
    /\ UNCHANGED <<waiting, closed, pc, idx, acc, toOrch, wstate, ret>>
    /\ UNCHANGED <<cfgVars, sideVars, dummyVars, callVars>>

\* One iteration of the worker loop on a "reset" command.
WorkerReset(i) ==
    /\ WorkerHas(i, "reset")
    /\ LET r == WorkerResetExec(i, wenv[i])
       IN /\ wenv' = [wenv EXCEPT ![i] = r.env]
          /\ toOrch' = [toOrch EXCEPT ![i] = Append(@, r.reply)]
    /\ toWorker' = [toWorker EXCEPT ![i] = Tail(@)]
    /\ UNCHANGED <<waiting, closed, pc, idx, acc, wstate, ret>>
    /\ UNCHANGED <<cfgVars, sideVars, dummyVars, callVars>>

\* A "close" iteration without the break: the instance is closed and the loop
\* goes on reading.
WorkerCloseNoBreak(i) ==
    /\ WorkerHas(i, "close")
    /\ wenv' = [wenv EXCEPT ![i] = EnvClose(@)]
    /\ toWorker' = [toWorker EXCEPT ![i] = Tail(@)]
    /\ UNCHANGED <<waiting, closed, pc, idx, acc, toOrch, wstate, ret>>
    /\ UNCHANGED <<cfgVars, sideVars, dummyVars, callVars>>

\* The last iteration of the worker loop, on "close".
WorkerClose(i) ==
    /\ WorkerHas(i, "close")
    /\ wenv' = [wenv EXCEPT ![i] = EnvClose(@)]
    /\ wstate' = [wstate EXCEPT ![i] = "exited"]
    /\ toWorker' = [toWorker EXCEPT ![i] = Tail(@)]
    /\ UNCHANGED <<waiting, closed, pc, idx, acc, toOrch, ret>>
    /\ UNCHANGED <<cfgVars, sideVars, dummyVars, callVars>>

\* The instance records a call of one of its other methods.
EnvCall(e, name) == [e EXCEPT !.log = Append(@, name)]

\* The tags the worker loop has a branch for.
KnownTags == {"step", "reset", "reset_task", "render", "close", "get_spaces",
              "render_vulnerability", "get_num_agents"}

\* remote.send(x) of a value that is not a tuple of fields: a one-field reply.
Bare(x) == <<x>>

\* An iteration that sends its reply twice.
WorkerRepliesTwice(i, name, reply) ==
    /\ wenv' = [wenv EXCEPT ![i] = EnvCall(@, name)]
    /\ toOrch' = [toOrch EXCEPT ![i] = Append(Append(@, reply), reply)]
    /\ toWorker' = [toWorker EXCEPT ![i] = Tail(@)]
    /\ UNCHANGED wstate

\* An iteration that runs its instance call and sends one reply.
WorkerReplies(i, name, reply) ==
    /\ wenv' = [wenv EXCEPT ![i] = EnvCall(@, name)]
    /\ toOrch' = [toOrch EXCEPT ![i] = Append(@, reply)]
    /\ toWorker' = [toWorker EXCEPT ![i] = Tail(@)]
    /\ UNCHANGED wstate

\* An iteration whose exception leaves the loop: nothing is sent and the
\* process ends without closing its instance.
WorkerRaises(i, err) ==
    /\ wstate' = [wstate EXCEPT ![i] = err]
    /\ toWorker' = [toWorker EXCEPT ![i] = Tail(@)]
    /\ UNCHANGED <<wenv, toOrch>>

\* One iteration on "reset_task": env.reset_task() is an optional method of the
\* instance; the call raises AttributeError on an instance without it.
WorkerResetTask(i) ==
    /\ WorkerHas(i, "reset_task")
    /\ \E has \in BOOLEAN :
          IF has THEN WorkerReplies(i, "reset_task", Bare("task_ob"))
                 ELSE WorkerRaises(i, "AttributeError")
    /\ UNCHANGED <<waiting, closed, pc, idx, acc, ret>>
    /\ UNCHANGED <<cfgVars, sideVars, dummyVars, callVars>>

\* One iteration on "render": a frame is sent back for mode "rgb_array"; mode
\* "human" renders and sends nothing; any other mode does nothing at all.
WorkerRender(i) ==
    /\ WorkerHas(i, "render")
    /\ LET mode == Head(toWorker[i]).data
       IN IF mode = "rgb_array"
          THEN WorkerReplies(i, "render", Bare("frame"))
          ELSE /\ wenv' = [wenv EXCEPT ![i] =
                             IF mode = "human" THEN EnvCall(@, "render") ELSE @]
               /\ toWorker' = [toWorker EXCEPT ![i] = Tail(@)]
               /\ UNCHANGED <<toOrch, wstate>>
    /\ UNCHANGED <<waiting, closed, pc, idx, acc, ret>>
    /\ UNCHANGED <<cfgVars, sideVars, dummyVars, callVars>>

\* One iteration on "get_spaces": the three spaces, read off the instance.
WorkerGetSpaces(i) ==
    /\ WorkerHas(i, "get_spaces")
    /\ toOrch' = [toOrch EXCEPT ![i] =
                    Append(@, EnvSpaces(wkind[i]))]
    /\ toWorker' = [toWorker EXCEPT ![i] = Tail(@)]
    /\ UNCHANGED <<wenv, wstate, waiting, closed, pc, idx, acc, ret>>
    /\ UNCHANGED <<cfgVars, sideVars, dummyVars, callVars>>

\* One iteration on "render_vulnerability": an optional method of the instance.
WorkerRenderVulnerability(i) ==
    /\ WorkerHas(i, "render_vulnerability")
    /\ \E has \in BOOLEAN :
          IF has THEN WorkerReplies(i, "render_vulnerability", Bare("frame"))
                 ELSE WorkerRaises(i, "AttributeError")
    /\ UNCHANGED <<waiting, closed, pc, idx, acc, ret>>
    /\ UNCHANGED <<cfgVars, sideVars, dummyVars, callVars>>

\* One iteration on "get_num_agents".
WorkerGetNumAgents(i) ==
    /\ WorkerHas(i, "get_num_agents")
    /\ toOrch' = [toOrch EXCEPT ![i] = Append(@, Bare(EnvNAgents(wkind[i])))]
    /\ toWorker' = [toWorker EXCEPT ![i] = Tail(@)]
    /\ UNCHANGED <<wenv, wstate, waiting, closed, pc, idx, acc, ret>>
    /\ UNCHANGED <<cfgVars, sideVars, dummyVars, callVars>>

\* An unknown tag skipped: the loop goes on to the next command.
WorkerUnknownIgnored(i) ==
    /\ Running(i) /\ toWorker[i] # <<>> /\ Head(toWorker[i]).tag \notin KnownTags
    /\ toWorker' = [toWorker EXCEPT ![i] = Tail(@)]
    /\ UNCHANGED <<wenv, toOrch, wstate, waiting, closed, pc, idx, acc, ret>>
    /\ UNCHANGED <<cfgVars, sideVars, dummyVars, callVars>>

\* One iteration on a tag with no branch: raise NotImplementedError.
WorkerUnknown(i) ==
    /\ Running(i) /\ toWorker[i] # <<>> /\ Head(toWorker[i]).tag \notin KnownTags
    /\ WorkerRaises(i, "NotImplementedError")
    /\ UNCHANGED <<waiting, closed, pc, idx, acc, ret>>
    /\ UNCHANGED <<cfgVars, sideVars, dummyVars, callVars>>

\* An iteration whose instance call raised and that sends a reply all the same
\* and goes on.
WorkerFailsMasked(i) ==
    /\ WorkerHas(i, "step") \/ WorkerHas(i, "reset")
    /\ toOrch' = [toOrch EXCEPT ![i] = Append(@, Bare("None"))]
    /\ toWorker' = [toWorker EXCEPT ![i] = Tail(@)]
    /\ UNCHANGED <<wenv, wstate, waiting, closed, pc, idx, acc, ret>>
    /\ UNCHANGED <<cfgVars, sideVars, dummyVars, callVars>>

\* One iteration on "step" or "reset" whose env.step or env.reset raises:
\* nothing in shareworker catches it, the process ends, and its pipe end is
\* closed or still held open by the other workers.
WorkerFails(i) ==
    /\ WorkerHas(i, "step") \/ WorkerHas(i, "reset")
    /\ \E st \in {"EnvError", "EnvErrorHeld"} : WorkerRaises(i, st)
    /\ UNCHANGED <<waiting, closed, pc, idx, acc, ret>>
    /\ UNCHANGED <<cfgVars, sideVars, dummyVars, callVars>>

\* -------------------------------------------------------- ShareDummyVecEnv
\* One instance's share of ShareDummyVecEnv.step_wait: env.step, the copy of its
\* outputs into the batch arrays, and the auto-reset on row i of those arrays.
\* obs[i] is a view of row i, so the row's content is what an alias of it shows.
DummyStepExec(i, e, a) ==
    LET e1 == EnvStep(e)
        out == EnvStepOut(i, e1, a)
        term == Terminated(out[4])
        info1 == IF term
                 THEN AddOriginal(out[5], DeepCopy(Ref("obs", i), e1),
                                  DeepCopy(Ref("state", i), e1),
                                  DeepCopy(Ref("avail", i), e1))
                 ELSE out[5]
        e2 == IF term THEN EnvReset(e1) ELSE e1
        rs == EnvResetOut(i, e2)
        tup == StepTuple(term, out, info1, rs)
    IN [env |-> e2, row |-> SendStep(tup, e2)]

DummyResetExec(i, e) ==
    LET e1 == EnvReset(e)
    IN [env |-> e1, row |-> SendReset(EnvResetOut(i, e1), e1)]

\* A step_async that steps the instances right away.
DStepAsyncEager(a) ==
    /\ actions' = <<a>>
    /\ d_ret' = Ok(<<>>)
    /\ envs' = [i \in Envs |-> EnvStep(envs[i])]

\* ShareDummyVecEnv.step_async
DStepAsync(a) ==
    /\ actions' = <<a>>
    /\ d_ret' = Ok(<<>>)
    /\ UNCHANGED envs

\* The body of ShareDummyVecEnv.step_wait with the stored batch acts (<<>> is
\* None, which zip refuses).
DStepWaitWith(acts) ==
    IF acts = <<>>
    THEN d_ret' = Raise("TypeError") /\ UNCHANGED <<actions, envs>>
    ELSE LET r == [i \in Envs |-> DummyStepExec(i, envs[i], acts[1][i])]
         IN /\ envs' = [i \in Envs |-> r[i].env]
            /\ actions' = <<>>
            /\ d_ret' = Unzip([i \in Envs |-> r[i].row], 6)

\* ShareDummyVecEnv.step_wait
DStepWait == DStepWaitWith(actions)

\* ShareVecEnv.step on ShareDummyVecEnv: step_async, then step_wait.
DStep(a) == DStepWaitWith(<<a>>)

\* ShareDummyVecEnv.reset
DReset ==
    LET r == [i \in Envs |-> DummyResetExec(i, envs[i])]
    IN /\ envs' = [i \in Envs |-> r[i].env]
       /\ d_ret' = Unzip([i \in Envs |-> r[i].row], 3)
       /\ UNCHANGED actions

\* ShareDummyVecEnv.close
DClose ==
    /\ envs' = [i \in Envs |-> EnvClose(envs[i])]
    /\ d_ret' = Ok(<<>>)
    /\ UNCHANGED actions

\* ------------------------------------------------------------------ caller
UseSub == backend \in {"subproc", "both"}
UseDummy == backend \in {"dummy", "both"}

\* A step_async is outstanding.
Awaiting == IF UseSub THEN waiting ELSE actions # <<>>

\* Nothing is in flight: no unread command, no unread reply, no pending step.
Quiet ==
    /\ ~Awaiting
    /\ UseSub => \A i \in Envs : toWorker[i] = <<>> /\ toOrch[i] = <<>> /\ Running(i)

CanCall == pc = "idle" /\ ncalls < MaxCalls

Called(name) ==
    /\ ncalls' = ncalls + 1
    /\ prevCall' = lastCall
    /\ lastCall' = name
    /\ awaitAtCall' = Awaiting

\* The reply worker i gives to its oldest unanswered command once step(a[i]) has
\* been queued behind the commands it still has to read.
OldestReply(i, a) ==
    IF toOrch[i] # <<>> THEN Head(toOrch[i])
    ELSE LET c == Head(toWorker[i] \o <<StepCmd(a, i)>>)
         IN IF c.tag = "step" THEN WorkerStepExec(i, wenv[i], c.data).reply
                              ELSE WorkerResetExec(i, wenv[i]).reply

\* What step_async(a) followed at once by step_wait() returns from this state.
TwoCallResult(a) ==
    IF UseSub
    THEN IF FirstDead <= NumEnvs THEN Raise("BrokenPipeError")
         ELSE Unzip([i \in Envs |-> OldestReply(i, a)], 6)
    ELSE Unzip([i \in Envs |-> DummyStepExec(i, envs[i], a[i]).row], 6)

CallStepAsync(a) ==
    /\ CanCall /\ Called("step_async")
    /\ expect' = TwoCallResult(a) /\ scen' = -1
    /\ IF UseSub THEN SubStepAsync(a) ELSE UNCHANGED subVars
    /\ IF UseDummy THEN DStepAsync(a) ELSE UNCHANGED dummyVars
    /\ UNCHANGED <<cfgVars, sideVars>>

CallStepWait ==
    /\ CanCall /\ Called("step_wait")
    /\ scen' = -1
    /\ IF UseSub THEN SubStepWait ELSE UNCHANGED subVars
    /\ IF UseDummy THEN DStepWait ELSE UNCHANGED dummyVars
    /\ UNCHANGED <<cfgVars, sideVars, expect>>

CallStep(a) ==
    /\ CanCall /\ Called("step")
    /\ expect' = TwoCallResult(a)
    /\ scen' = IF scen < 0 \/ (UseSub /\ FirstDead <= NumEnvs) THEN -1
               ELSE IF UseSub THEN scen ELSE scen + 1
    /\ IF UseSub THEN SubStep(a) ELSE UNCHANGED subVars
    /\ IF UseDummy THEN DStep(a) ELSE UNCHANGED dummyVars
    /\ UNCHANGED <<cfgVars, sideVars>>

CallReset ==
    /\ CanCall /\ Called("reset")
    /\ scen' = IF Quiet THEN 0 ELSE -1
    /\ IF UseSub THEN SubReset ELSE UNCHANGED subVars
    /\ IF UseDummy THEN DReset ELSE UNCHANGED dummyVars
    /\ UNCHANGED <<cfgVars, sideVars, expect>>

CallClose ==
    /\ CanCall /\ Called("close")
    /\ scen' = -1
    /\ IF UseSub THEN SubClose ELSE UNCHANGED subVars
    /\ IF UseDummy THEN DClose ELSE UNCHANGED dummyVars
    /\ UNCHANGED <<cfgVars, sideVars, expect>>

\* ---------------------------------------------------------------- MujocoMulti
\* The value of an attribute that was never assigned.
Unset == -1

\* MujocoMulti after __init__: steps is not assigned there, and the TimeLimit
\* wrapper has been reset.
MujocoNew == [steps |-> Unset, elapsed |-> 0]

\* A step()'s info dict: the key TimeLimit sets, the key MujocoMulti sets
\* ("absent" | "True" | "False" each), and whether the worker has added the
\* three original_* keys.
NoInfo == [truncated |-> "absent", bad_transition |-> "absent", originals |-> FALSE]
PyBool(b) == IF b THEN "True" ELSE "False"

\* timelimit_env.step (through NormalizedActions) on an environment that
\* reports terminal: done_n and info_n, with max_episode_steps = episode_limit;
\* reward_n is tagged with the step of the episode it is the reward of.
TimeLimitStep(elapsed, terminal) ==
    LET n == elapsed + 1
    IN [elapsed |-> n,
        reward |-> n,
        done |-> terminal \/ n >= EpisodeLimit,
        info |-> IF n >= EpisodeLimit
                 THEN [NoInfo EXCEPT !.truncated = PyBool(~terminal)]
                 ELSE NoInfo]

\* The value step gives info["bad_transition"], with > in place of >=.
BadTransitionLate(steps) == PyBool(steps > EpisodeLimit)

\* The value step gives info["bad_transition"] on a done step.
BadTransition(steps) == PyBool(~(steps < EpisodeLimit))

\* A dones list in which only the first agent carries done_n.
DonesFirstOnly(done_n) ==
    [kind |-> "peragent", v |-> [a \in Agents |-> a = 1 /\ done_n]]

\* dones = [done_n] * self.n_agents
Dones(done_n) == [kind |-> "peragent", v |-> [a \in Agents |-> done_n]]

\* rewards = [[reward_n]] * self.n_agents
Rewards(reward_n) == [a \in Agents |-> <<reward_n>>]

\* No wrapped_env.step was made.
NoReport == [done |-> FALSE, reward |-> 0]

\* What wrapped_env.step reports to MujocoMulti.step.
WrappedReport(e, terminal) ==
    LET t == TimeLimitStep(e.elapsed, terminal)
    IN [done |-> t.done, reward |-> t.reward]

\* MujocoMulti.reset.
MujocoReset(e) ==
    [env |-> [steps |-> 0, elapsed |-> 0], out |-> [kind |-> "reset"]]

\* MujocoMulti.step: the wrapped environment is stepped, then self.steps += 1
\* (AttributeError while steps was never assigned), then bad_transition.
MujocoStep(e, terminal) ==
    LET t == TimeLimitStep(e.elapsed, terminal)
        n == e.steps + 1
    IN IF e.steps = Unset
       THEN [env |-> [e EXCEPT !.elapsed = t.elapsed],
             out |-> [kind |-> "error", err |-> "AttributeError"]]
       ELSE [env |-> [steps |-> n, elapsed |-> t.elapsed],
             out |-> [kind |-> "step",
                      rewards |-> Rewards(t.reward),
                      done |-> Dones(t.done),
                      info |-> IF t.done
                               THEN [t.info EXCEPT !.bad_transition = BadTransition(n)]
                               ELSE t.info]]

\* Calls on one instance, enough of them to run past the time limit and to
\* end one episode early and the next at the limit.
MaxEnvCalls == 2 * EpisodeLimit + 1

EnvCalled(i) == m_n[i] < MaxEnvCalls /\ m_n' = [m_n EXCEPT ![i] = @ + 1]

\* Instance i's step(actions), called directly.
MStep(i, terminal) ==
    /\ EnvCalled(i)
    /\ LET r == MujocoStep(menv[i], terminal)
       IN /\ menv' = [menv EXCEPT ![i] = r.env]
          /\ m_out' = [m_out EXCEPT ![i] = r.out]
    /\ m_since' = [m_since EXCEPT ![i] = @ + 1]
    /\ m_wrapped' = [m_wrapped EXCEPT ![i] = WrappedReport(menv[i], terminal)]
    /\ UNCHANGED <<cfgVars, subVars, dummyVars, callVars, padVars, ctorVars>>

\* Instance i's reset(), called directly.
MReset(i) ==
    /\ EnvCalled(i)
    /\ LET r == MujocoReset(menv[i])
       IN /\ menv' = [menv EXCEPT ![i] = r.env]
          /\ m_out' = [m_out EXCEPT ![i] = r.out]
    /\ m_since' = [m_since EXCEPT ![i] = 0]
    /\ m_wrapped' = [m_wrapped EXCEPT ![i] = NoReport]
    /\ UNCHANGED <<cfgVars, subVars, dummyVars, callVars, padVars, ctorVars>>

\* Worker i runs no further iteration once a call on its instance raised.
WorkerAlive(i) == m_out[i].kind # "error"

\* A "step" iteration of shareworker i over its instance: step, then reset
\* when np.all(done) (done is a list, never a bool).
MWorkerStep(i, terminal) ==
    /\ WorkerAlive(i) /\ EnvCalled(i)
    /\ LET r == MujocoStep(menv[i], terminal)
       IN IF r.out.kind = "step" /\ Terminated(r.out.done)
          THEN /\ menv' = [menv EXCEPT ![i] = MujocoReset(r.env).env]
               /\ m_out' = [m_out EXCEPT ![i] = [r.out EXCEPT !.info.originals = TRUE]]
               /\ m_since' = [m_since EXCEPT ![i] = 0]
          ELSE /\ menv' = [menv EXCEPT ![i] = r.env]
               /\ m_out' = [m_out EXCEPT ![i] = r.out]
               /\ m_since' = [m_since EXCEPT ![i] = @ + 1]
    /\ m_wrapped' = [m_wrapped EXCEPT ![i] = WrappedReport(menv[i], terminal)]
    /\ UNCHANGED <<cfgVars, subVars, dummyVars, callVars, padVars, ctorVars>>

\* A "reset" iteration of shareworker i over its instance.
MWorkerReset(i) ==
    /\ WorkerAlive(i) /\ EnvCalled(i)
    /\ LET r == MujocoReset(menv[i])
       IN /\ menv' = [menv EXCEPT ![i] = r.env]
          /\ m_out' = [m_out EXCEPT ![i] = r.out]
    /\ m_since' = [m_since EXCEPT ![i] = 0]
    /\ m_wrapped' = [m_wrapped EXCEPT ![i] = NoReport]
    /\ UNCHANGED <<cfgVars, subVars, dummyVars, callVars, padVars, ctorVars>>

\* The MujocoMulti instances as constructed, with no call made on them.
NoMujoco ==
    /\ menv = [i \in Envs |-> MujocoNew]
    /\ m_out = [i \in Envs |-> [kind |-> "none"]]
    /\ m_since = [i \in Envs |-> 0]
    /\ m_n = [i \in Envs |-> 0]
    /\ m_wrapped = [i \in Envs |-> NoReport]

\* ----------------------------------------------------------- specification
\* The state after construction: the workers run, each holding its instance, and
\* the constructor's exchange with worker 0 has been answered.
InitCore(backends) ==
    /\ backend \in backends
    /\ doneKind \in {"scalar", "peragent"}
    /\ envReuse \in BOOLEAN
    /\ waiting = FALSE /\ closed = FALSE
    /\ pc = "idle" /\ idx = 1 /\ acc = <<>>
    /\ toWorker = [i \in Envs |-> <<>>]
    /\ toOrch = [i \in Envs |-> <<>>]
    /\ wenv = [i \in Envs |-> EnvNew]
    /\ wstate = [i \in Envs |-> "running"]
    /\ actions = <<>>
    /\ envs = [i \in Envs |-> EnvNew]
    /\ ret = NoRet /\ d_ret = NoRet
    /\ ncalls = 0 /\ lastCall = "none" /\ prevCall = "none"
    /\ awaitAtCall = FALSE /\ expect = NoRet /\ scen = -1
    /\ wkind = [i \in Envs |-> NAgents]
    /\ n_agents = EnvNAgents(NAgents) /\ spaces = EnvSpaces(NAgents)

\* The vectorized environments: the stacking utility is not in use.
InitWith(backends) ==
    /\ InitCore(backends)
    /\ padIn = <<>> /\ padArgs = <<>> /\ padOut = <<>>
    /\ NoMujoco

Init == InitWith({"subproc", "dummy"})

Next ==
    \/ \E a \in Batches : CallStepAsync(a)
    \/ CallStepWait
    \/ \E a \in Batches : CallStep(a)
    \/ CallReset
    \/ CallClose
    \/ RecvStepWait
    \/ RecvReset
    \/ RecvCloseDrain
    \/ JoinClose
    \/ \E i \in Envs : WorkerStep(i)
    \/ \E i \in Envs : WorkerReset(i)
    \/ \E i \in Envs : WorkerClose(i)

Spec == Init /\ [][Next]_vars

\* Both backends built over equal instances and driven by the same calls.
InitPair == InitWith({"both"})

\* One iteration of worker i's loop, and the states in which it can run one: it
\* is alive and a command is there for it to read.
WorkerRuns(i) == WorkerStep(i) \/ WorkerReset(i) \/ WorkerClose(i)
WorkerCanRun(i) ==
    Running(i) /\ toWorker[i] # <<>> /\ Head(toWorker[i]).tag \in {"step", "reset", "close"}

\* Scheduling: every worker process keeps running its loop while a command is
\* there for it (weak fairness of WorkerRuns(i), with its enabling condition
\* written out), and a recv or join the orchestrator is blocked in completes
\* once it can.
Fairness ==
    /\ \A i \in Envs : []<>(~WorkerCanRun(i)) \/ []<><<WorkerRuns(i)>>_vars
    /\ WF_vars(RecvStepWait \/ RecvReset \/ RecvCloseDrain \/ JoinClose)

SpecFair == Init /\ [][Next]_vars /\ Fairness

SpecPair == InitPair /\ [][Next]_vars


\* The subprocess backend over instances whose step or reset may raise; how
\* the instances report done plays no part in it.
InitFail == InitWith({"subproc"}) /\ doneKind = "scalar" /\ ~envReuse

\* The calls whose replies a failure withholds, and the workers.
NextFail ==
    \/ \E a \in Batches : CallStepAsync(a)
    \/ CallStepWait
    \/ CallReset
    \/ RecvStepWait
    \/ RecvReset
    \/ \E i \in Envs : WorkerStep(i)
    \/ \E i \in Envs : WorkerReset(i)
    \/ \E i \in Envs : WorkerFails(i)

SpecFail == InitFail /\ [][NextFail]_vars



\* ------------------------------------------------------------ disciplined use
\* The subprocess backend driven the way the runners drive it: reset first,
\* then step_async/step_wait pairs or further resets, then close, and nothing
\* after close. One call more than MaxCalls, so that a close follows a
\* completed pair.
MaxDiscCalls == MaxCalls + 1

DiscCall(name) ==
    /\ pc = "idle" /\ ncalls < MaxDiscCalls /\ Called(name)
    /\ UNCHANGED <<cfgVars, sideVars, dummyVars>>

DiscReset ==
    /\ lastCall \in {"none", "reset", "step_wait"}
    /\ DiscCall("reset")
    /\ scen' = IF Quiet THEN 0 ELSE -1
    /\ SubReset
    /\ UNCHANGED expect

DiscStepAsync(a) ==
    /\ lastCall \in {"reset", "step_wait"}
    /\ DiscCall("step_async")
    /\ expect' = TwoCallResult(a) /\ scen' = -1
    /\ SubStepAsync(a)

DiscStepWait ==
    /\ lastCall = "step_async"
    /\ DiscCall("step_wait")
    /\ scen' = -1
    /\ SubStepWait
    /\ UNCHANGED expect

DiscClose ==
    /\ lastCall \in {"reset", "step_wait"}
    /\ DiscCall("close")
    /\ scen' = -1
    /\ SubClose
    /\ UNCHANGED expect

InitDisc == InitWith({"subproc"})

NextDisc ==
    \/ DiscReset
    \/ \E a \in Batches : DiscStepAsync(a)
    \/ DiscStepWait
    \/ DiscClose
    \/ RecvStepWait
    \/ RecvReset
    \/ JoinClose
    \/ \E i \in Envs : WorkerStep(i)
    \/ \E i \in Envs : WorkerReset(i)
    \/ \E i \in Envs : WorkerClose(i)

SpecDisc == InitDisc /\ [][NextDisc]_vars /\ Fairness


\* ------------------------------------------------------ MujocoMulti on its own
\* MujocoMulti instances, freshly constructed.
InitMujoco == InitWith({"mujoco"}) /\ doneKind = "peragent" /\ ~envReuse

\* The instances called directly, in any order.
NextMujoco ==
    \/ \E i \in Envs, terminal \in BOOLEAN : MStep(i, terminal)
    \/ \E i \in Envs : MReset(i)

SpecMujoco == InitMujoco /\ [][NextMujoco]_vars

\* Each instance inside a shareworker, which resets it after every done step.
NextMujocoVec ==
    \/ \E i \in Envs, terminal \in BOOLEAN : MWorkerStep(i, terminal)
    \/ \E i \in Envs : MWorkerReset(i)

SpecMujocoVec == InitMujoco /\ [][NextMujocoVec]_vars

\* ------------------------------------------------ ShareSubprocVecEnv.__init__
\* A constructor that puts its two questions to the last worker.
CtorChanLast == NumEnvs

\* self.remotes[0]: the channel the constructor puts its two questions on.
CtorChan == 1

\* From the first line up to the first recv: the flags are set, the pipes and
\* the processes are made and started, get_num_agents is sent.
CtorStart ==
    /\ pc = "ctor_start"
    /\ waiting' = FALSE /\ closed' = FALSE
    /\ toWorker' = [toWorker EXCEPT ![CtorChan] =
                      Append(@, [tag |-> "get_num_agents", data |-> 0])]
    /\ pc' = "ctor_num_agents"
    /\ UNCHANGED <<idx, acc, toOrch, wenv, wstate, ret, n_agents, spaces, wkind>>
    /\ UNCHANGED <<cfgVars, padVars, mujVars, dummyVars, callVars>>

\* self.n_agents = self.remotes[0].recv(), then get_spaces is sent.
CtorRecvNumAgents ==
    /\ pc = "ctor_num_agents" /\ toOrch[CtorChan] # <<>>
    /\ n_agents' = Head(toOrch[CtorChan])[1]
    /\ toOrch' = [toOrch EXCEPT ![CtorChan] = Tail(@)]
    /\ toWorker' = [toWorker EXCEPT ![CtorChan] =
                      Append(@, [tag |-> "get_spaces", data |-> 0])]
    /\ pc' = "ctor_spaces"
    /\ UNCHANGED <<waiting, closed, idx, acc, wenv, wstate, ret, spaces, wkind>>
    /\ UNCHANGED <<cfgVars, padVars, mujVars, dummyVars, callVars>>

\* The three spaces are unpacked from the reply and handed to
\* ShareVecEnv.__init__; the constructor returns.
CtorRecvSpaces ==
    /\ pc = "ctor_spaces" /\ toOrch[CtorChan] # <<>>
    /\ Len(Head(toOrch[CtorChan])) = 3
    /\ spaces' = Head(toOrch[CtorChan])
    /\ toOrch' = [toOrch EXCEPT ![CtorChan] = Tail(@)]
    /\ pc' = "idle"
    /\ UNCHANGED <<waiting, closed, idx, acc, toWorker, wenv, wstate, ret, n_agents, wkind>>
    /\ UNCHANGED <<cfgVars, padVars, mujVars, dummyVars, callVars>>

\* Before the constructor runs: the object has no attributes yet (the flags
\* hold anything), and each env_fn builds an instance of some kind.
InitCtor ==
    /\ backend = "ctor"
    /\ doneKind \in {"scalar", "peragent"}
    /\ envReuse \in BOOLEAN
    /\ waiting \in BOOLEAN /\ closed \in BOOLEAN
    /\ pc = "ctor_start" /\ idx = 1 /\ acc = <<>>
    /\ toWorker = [i \in Envs |-> <<>>]
    /\ toOrch = [i \in Envs |-> <<>>]
    /\ wenv = [i \in Envs |-> EnvNew]
    /\ wstate = [i \in Envs |-> "running"]
    /\ actions = <<>>
    /\ envs = [i \in Envs |-> EnvNew]
    /\ ret = NoRet /\ d_ret = NoRet
    /\ ncalls = 0 /\ lastCall = "none" /\ prevCall = "none"
    /\ awaitAtCall = FALSE /\ expect = NoRet /\ scen = -1
    /\ wkind \in [Envs -> 1..NAgents]
    /\ n_agents = 0 /\ spaces = <<>>
    /\ padIn = <<>> /\ padArgs = <<>> /\ padOut = <<>>
    /\ NoMujoco

NextCtor ==
    \/ CtorStart
    \/ CtorRecvNumAgents
    \/ CtorRecvSpaces
    \/ \E i \in Envs : WorkerGetNumAgents(i)
    \/ \E i \in Envs : WorkerGetSpaces(i)

SpecCtor == InitCtor /\ [][NextCtor]_vars

\* -------------------------------------------------- the worker loop on its own
\* The worker contract is about any command the channel can deliver, also the
\* ones ShareSubprocVecEnv never sends: here the other end of each pipe sends
\* arbitrary commands, up to MaxCmds of them, and never receives.
MaxCmds == NumEnvs

RenderModes == {"rgb_array", "human", "other"}
PlainTags == {"reset", "reset_task", "close", "get_spaces", "render_vulnerability",
              "get_num_agents", "bogus"}

\* remote.recv() of the worker will deliver c: a send on a pipe whose worker
\* end is still open.
WorkerSend(i, c) ==
    /\ ncalls < MaxCmds /\ Running(i)
    /\ toWorker' = [toWorker EXCEPT ![i] = Append(@, c)]
    /\ ncalls' = ncalls + 1
    /\ UNCHANGED <<waiting, closed, pc, idx, acc, toOrch, wenv, wstate, ret>>
    /\ UNCHANGED <<cfgVars, sideVars, dummyVars, lastCall, prevCall, awaitAtCall, expect, scen>>

InitWorker == InitWith({"worker"})

NextWorker ==
    \/ \E i \in Envs, a \in Batches : WorkerSend(i, StepCmd(a, i))
    \/ \E i \in Envs, m \in RenderModes : WorkerSend(i, [tag |-> "render", data |-> m])
    \/ \E i \in Envs, t \in PlainTags : WorkerSend(i, [tag |-> t, data |-> 0])
    \/ \E i \in Envs : WorkerStep(i)
    \/ \E i \in Envs : WorkerReset(i)
    \/ \E i \in Envs : WorkerResetTask(i)
    \/ \E i \in Envs : WorkerRender(i)
    \/ \E i \in Envs : WorkerClose(i)
    \/ \E i \in Envs : WorkerGetSpaces(i)
    \/ \E i \in Envs : WorkerRenderVulnerability(i)
    \/ \E i \in Envs : WorkerGetNumAgents(i)
    \/ \E i \in Envs : WorkerUnknown(i)

SpecWorker == InitWorker /\ [][NextWorker]_vars

\* ----------------------------- IsaacLabWrapper.stack_padded_tensors_last_axis
\* A tensor of shape (rows, size) is a sequence of rows; entry (b, m) of the
\* k-th tensor handed in is a value that names its position.
Tensor(k, rows, size) == [b \in 1..rows |-> [m \in 1..size |-> 100 * k + 10 * b + m]]

\* tensor.shape[-1]
LastSize(t) == Len(t[1])

\* max([...])
MaxOf(S) == CHOOSE m \in S : \A x \in S : x <= m

\* Padding put in front of the last dimension instead of behind it.
PadInFront(t, left, right, value) ==
    [b \in DOMAIN t |-> [m \in 1..right |-> value] \o t[b] \o [m \in 1..left |-> value]]

\* torch.nn.functional.pad(t, (left, right), 'constant', value): left and right
\* entries of value around the last dimension.
Pad(t, left, right, value) ==
    [b \in DOMAIN t |-> [m \in 1..left |-> value] \o t[b] \o [m \in 1..right |-> value]]

\* torch.stack(ts, -1) of tensors of one shape (rows, size): shape (rows, size, K).
StackLast(ts) ==
    [b \in DOMAIN ts[1] |-> [m \in DOMAIN ts[1][b] |-> [k \in DOMAIN ts |-> ts[k][b][m]]]]

\* x.transpose(-1, -2) of a tensor of rank 3.
TransposeLast2(x) ==
    [b \in DOMAIN x |->
        [k \in DOMAIN x[b][1] |-> [m \in DOMAIN x[b] |-> x[b][m][k]]]]

\* The padding_value parameter: 0 when the argument is left out.
PaddingValue(args) == IF args = <<>> THEN 0 ELSE args[1]

stack_padded_tensors_last_axis(tensors, padding_value) ==
    LET max_size == MaxOf({LastSize(tensors[k]) : k \in DOMAIN tensors})
        padded_tensors ==
            [k \in DOMAIN tensors |->
                Pad(tensors[k], 0, max_size - LastSize(tensors[k]), padding_value)]
    IN TransposeLast2(StackLast(padded_tensors))

\* The call.
StackCall ==
    /\ padOut = <<>>
    /\ padOut' = stack_padded_tensors_last_axis(padIn, PaddingValue(padArgs))
    /\ UNCHANGED <<padIn, padArgs, cfgVars, subVars, dummyVars, callVars, ctorVars, mujVars>>

\* Any sequence of 1..MaxTensors tensors that agree on their number of rows,
\* with any last extents, and any way of passing the fill value.
InitPad ==
    /\ InitCore({"pad"})
    /\ \E n \in 1..MaxTensors, rows \in 1..MaxRows :
         \E sizes \in [1..n -> 1..MaxLast] :
            padIn = [k \in 1..n |-> Tensor(k, rows, sizes[k])]
    /\ padArgs \in {<<>>, <<0>>, <<-1>>}
    /\ padOut = <<>>
    /\ NoMujoco

NextPad == StackCall

SpecPad == InitPad /\ [][NextPad]_vars

\* ------------------------------------------------------------------ claims
\* What the last call returned or raised, on the backend that was built.
Ret == IF UseSub THEN ret ELSE d_ret

\* Instance i, wherever the backend keeps it.
Inst(i) == IF UseSub THEN wenv[i] ELSE envs[i]

\* Step commands of channel i that the orchestrator has not had the reply of.
PendingSteps(i) ==
    Cardinality({k \in DOMAIN toWorker[i] : toWorker[i][k].tag = "step"})
    + Cardinality({k \in DOMAIN toOrch[i] : Len(toOrch[i][k]) = 6})

\* close commands worker i has been sent so far (read or not).
CloseSent(i) ==
    wenv[i].closes + Cardinality({k \in DOMAIN toWorker[i] : toWorker[i][k].tag = "close"})

\* C1: step_wait() called with no step_async outstanding fails with an error at
\* once: the call is over (it does not block in a recv), it returned an error
\* and no batched result, and it took no message off any channel.
C1_StepWaitWithoutAsyncFails ==
    (lastCall = "step_wait" /\ ~awaitAtCall)
        => (pc = "idle" /\ Ret.kind = "error" /\ Ret.err \in {"ProtocolViolation", "TypeError"})

\* C2: step_async() called while a step_async is outstanding fails with an
\* error, and no channel carries a second unanswered step command.
C2_SecondStepAsyncFails ==
    (lastCall = "step_async" /\ awaitAtCall)
        => /\ Ret.kind = "error"
           /\ UseSub => \A i \in Envs : PendingSteps(i) <= 1

\* C3: once ShareSubprocVecEnv is closed, a close() call returns at once without
\* error, sends and receives nothing and joins nothing; and no worker is ever
\* sent more than one close command.
C3_CloseIdempotent ==
    [][ /\ (UseSub /\ closed /\ lastCall' = "close" /\ ncalls' = ncalls + 1)
            => /\ ret'.kind = "ok" /\ pc' = "idle"
               /\ UNCHANGED <<toWorker, toOrch, wenv, wstate, idx, closed>>
        /\ UseSub => \A i \in Envs : CloseSent(i)' <= 1 ]_vars

\* C3 witness: a second close() has returned on a closed ShareSubprocVecEnv.
C3_Witness ==
    /\ backend = "subproc" /\ closed /\ pc = "idle"
    /\ lastCall = "close" /\ prevCall = "close" /\ ret.kind = "ok"
    /\ \A i \in Envs : CloseSent(i) = 1

\* A batched step result was returned: six fields of NumEnvs entries each.
StepReturned == Ret.kind = "ok" /\ DOMAIN Ret.val = 1..6

\* A batched reset result was returned.
ResetReturned == Ret.kind = "ok" /\ DOMAIN Ret.val = 1..3

\* Position i of the returned step result.
Row(i) == [ob |-> Ret.val[1][i], sob |-> Ret.val[2][i], rew |-> Ret.val[3][i],
           done |-> Ret.val[4][i], info |-> Ret.val[5][i], av |-> Ret.val[6][i]]

\* done reports termination: a true scalar, or a per-agent collection all true.
AllDone(done) ==
    \/ done.kind = "scalar" /\ done.v = TRUE
    \/ done.kind = "peragent" /\ \A a \in Agents : done.v[a] = TRUE

\* Field f of instance i in episode ep at step t, as a plain value.
Plain(f, i, ep, t) == [ref |-> FALSE, f |-> f, inst |-> i, ep |-> ep, t |-> t]

OriginalKeys == {"original_obs", "original_state", "original_avail_actions"}

\* C4: index stability. Position i of every field of every batched result was
\* produced by instance i, and in a step result it was produced for the action
\* at position i of one batch (the same batch at every position).
C4_IndexStable ==
    /\ (StepReturned \/ ResetReturned)
         => \A j \in DOMAIN Ret.val : DOMAIN Ret.val[j] = Envs
    /\ ResetReturned
         => \A i \in Envs : /\ Ret.val[1][i].inst = i /\ Ret.val[1][i].f = "obs"
                            /\ Ret.val[2][i].inst = i /\ Ret.val[2][i].f = "state"
                            /\ Ret.val[3][i].inst = i /\ Ret.val[3][i].f = "avail"
    /\ StepReturned
         => /\ \A i \in Envs :
                  /\ Row(i).ob.inst = i /\ Row(i).ob.f = "obs"
                  /\ Row(i).sob.inst = i /\ Row(i).sob.f = "state"
                  /\ Row(i).av.inst = i /\ Row(i).av.f = "avail"
                  /\ Row(i).rew.inst = i /\ Row(i).info.step.inst = i
            /\ \E b \in {0, 1} : \A i \in Envs :
                  /\ Row(i).rew.act = i + b * NumEnvs
                  /\ Row(i).info.step.act = i + b * NumEnvs

\* C4 witness: a step_wait() returned a batched step result.
C4_Witness == StepReturned /\ lastCall = "step_wait" /\ pc = "idle"

\* C5: auto-reset substitution. Where a returned step result reports
\* termination, its observation, shared observation and available actions are
\* those of a fresh reset of that instance (step 0 of the next episode), and its
\* reward, done and info are those of the terminal step.
C5_AutoResetSubstitutes ==
    StepReturned => \A i \in Envs :
        LET r == Row(i)
            st == r.info.step
        IN AllDone(r.done) =>
             /\ r.ob = Plain("obs", i, st.ep + 1, 0)
             /\ r.sob = Plain("state", i, st.ep + 1, 0)
             /\ r.av = Plain("avail", i, st.ep + 1, 0)
             /\ r.rew = [f |-> "reward", inst |-> i, ep |-> st.ep, t |-> st.t, act |-> st.act]
             /\ st.t = EpisodeLimit
             /\ r.done = EnvDone([steps |-> st.t])

\* C5 witness: a returned step result reports termination at some position.
C5_Witness == StepReturned /\ \E i \in Envs : AllDone(Row(i).done)

\* C6: terminal-transition recovery. Where a returned step result reports
\* termination, info of agent 0 holds under original_obs, original_state and
\* original_avail_actions the terminal step's observation, shared observation
\* and available actions, not the reset's; elsewhere the keys are absent.
C6_OriginalsRecorded ==
    StepReturned => \A i \in Envs :
        LET r == Row(i)
            st == r.info.step
        IN IF AllDone(r.done)
           THEN /\ DOMAIN r.info = {"step"} \cup OriginalKeys
                /\ r.info.original_obs = Plain("obs", i, st.ep, st.t)
                /\ r.info.original_state = Plain("state", i, st.ep, st.t)
                /\ r.info.original_avail_actions = Plain("avail", i, st.ep, st.t)
                /\ r.info.original_obs # r.ob
           ELSE DOMAIN r.info = {"step"}

\* C6 witness: a terminated position of an instance that hands out its live
\* buffers, and a position that did not terminate.
C6_Witness ==
    /\ StepReturned /\ envReuse
    /\ \E i \in Envs : AllDone(Row(i).done) /\ "original_obs" \in DOMAIN Row(i).info

\* C6 witness of the other case: a returned position that did not terminate.
C6_WitnessNoReset ==
    StepReturned /\ \E i \in Envs : ~AllDone(Row(i).done) /\ DOMAIN Row(i).info = {"step"}

\* C7: auto-reset trigger. A returned step result carries a reset's outputs
\* exactly where done is a true scalar or an all-true per-agent collection;
\* elsewhere it carries the step's own observation, shared observation and
\* available actions, and on quiet channels the last call made on the instance
\* is a reset exactly where done reports termination.
C7_ResetIffAllDone ==
    StepReturned => \A i \in Envs :
        LET r == Row(i)
            st == r.info.step
        IN /\ AllDone(r.done) <=> (r.ob.t = 0 /\ r.ob.ep = st.ep + 1)
           /\ ~AllDone(r.done)
                => /\ r.ob = Plain("obs", i, st.ep, st.t)
                   /\ r.sob = Plain("state", i, st.ep, st.t)
                   /\ r.av = Plain("avail", i, st.ep, st.t)
                   /\ st.t > 0
           /\ (Quiet /\ lastCall \in {"step", "step_wait"})
                => (AllDone(r.done) <=> Inst(i).log[Len(Inst(i).log)] = "reset")

\* C7 witness: a per-agent done with true and false entries came back without a reset.
C7_WitnessPartial ==
    /\ StepReturned /\ Quiet
    /\ \E i \in Envs :
          /\ Row(i).done.kind = "peragent"
          /\ \E a \in Agents : Row(i).done.v[a]
          /\ \E a \in Agents : ~Row(i).done.v[a]
          /\ Row(i).ob.t = Row(i).info.step.t
          /\ Inst(i).log[Len(Inst(i).log)] = "step"

\* C7 witness of the terminating cases: a true scalar done, reset.
C7_WitnessScalar ==
    /\ StepReturned /\ Quiet
    /\ \E i \in Envs : Row(i).done.kind = "scalar" /\ Row(i).done.v /\ Row(i).ob.t = 0

\* n times "step".
StepLog(n) == [k \in 1..n |-> "step"]

\* The last n calls made on instance i (all of them when there are fewer).
LogTail(i, n) ==
    LET log == Inst(i).log
    IN IF n >= Len(log) THEN log ELSE SubSeq(log, Len(log) - n + 1, Len(log))

\* C8: episode scenario. After reset() on quiet channels followed by j step()
\* calls, with instances that report done exactly on step EpisodeLimit: for
\* j < EpisodeLimit the j-th call returns done not reporting termination and the
\* stepped observations, and nothing was reset since the reset(); for
\* j = EpisodeLimit it returns done true at every position and the fresh-reset
\* observations, and each instance was reset exactly once since the reset().
C8_EpisodeScenario ==
    (pc = "idle" /\ lastCall = "step" /\ scen >= 1 /\ scen <= EpisodeLimit) =>
        /\ StepReturned
        /\ \A i \in Envs :
             LET r == Row(i)
                 st == r.info.step
             IN IF scen < EpisodeLimit
                THEN /\ ~AllDone(r.done)
                     /\ r.done.kind = "scalar" => r.done.v = FALSE
                     /\ st.t = scen
                     /\ r.ob = Plain("obs", i, st.ep, scen)
                     /\ Inst(i).resets = st.ep
                     /\ LogTail(i, scen + 1) = <<"reset">> \o StepLog(scen)
                ELSE /\ AllDone(r.done)
                     /\ st.t = EpisodeLimit
                     /\ r.ob = Plain("obs", i, st.ep + 1, 0)
                     /\ r.ob # Plain("obs", i, st.ep, EpisodeLimit)
                     /\ Inst(i).resets = st.ep + 1
                     /\ LogTail(i, scen + 2) = <<"reset">> \o StepLog(scen) \o <<"reset">>

\* C8 witness: the EpisodeLimit-th step() after a reset() has returned.
C8_Witness ==
    /\ pc = "idle" /\ lastCall = "step" /\ scen = EpisodeLimit /\ StepReturned
    /\ \A i \in Envs : AllDone(Row(i).done)

\* C9: step(a) is step_async(a) followed at once by step_wait(). A step() that
\* is over returned what that sequence returns from the state it was called in,
\* and so did a step_wait() called right after a step_async() that went through;
\* a step() that got past its sends leaves no step awaiting, and from quiet
\* channels it leaves the channels quiet.
C9_StepIsAsyncThenWait ==
    /\ (pc = "idle" /\ lastCall = "step")
         => /\ Ret = expect
            /\ Ret.err # "BrokenPipeError" => ~Awaiting
            /\ scen >= 1 => Quiet
    /\ (pc = "idle" /\ lastCall = "step_wait" /\ prevCall = "step_async"
          /\ expect.err # "BrokenPipeError")
         => Ret = expect /\ ~Awaiting

\* C9 witness: a step() returned a batched result on the subprocess backend.
C9_Witness ==
    /\ backend = "subproc" /\ pc = "idle" /\ lastCall = "step"
    /\ StepReturned /\ ~waiting /\ ret = expect

\* C9 witness of the two-call sequence it is compared with.
C9_WitnessTwoCalls ==
    /\ pc = "idle" /\ lastCall = "step_wait" /\ prevCall = "step_async"
    /\ StepReturned /\ Ret = expect

\* C10: backend equivalence. Driven by the same calls over equal instances, the
\* two backends have, whenever the subprocess one is between calls, returned the
\* same result or both raised, and once no step is outstanding and the workers
\* have read every command the same calls have been made on instance i in the
\* same order.
C10_BackendsAgree ==
    (backend = "both" /\ pc = "idle") =>
        /\ ret.kind = d_ret.kind
        /\ ret.val = d_ret.val
        /\ (~waiting /\ actions = <<>> /\ \A i \in Envs : toWorker[i] = <<>>)
             => \A i \in Envs : wenv[i].log = envs[i].log

\* Messages of channel i in flight: commands unread plus replies unread.
Outstanding(i) == Len(toWorker[i]) + Len(toOrch[i])

\* close() is draining and what is in flight is one step per channel not yet
\* drained, and nothing on the channels drained already.
CleanDrain ==
    /\ UseSub /\ pc = "close_drain"
    /\ \A i \in Envs :
          IF i < idx THEN Outstanding(i) = 0
          ELSE Outstanding(i) = 1 /\ PendingSteps(i) = 1

\* C11: close() with a step_async outstanding goes into its drain loop without
\* sending anything; the loop takes exactly one reply per channel, in channel
\* order, and no close command exists while it runs; with one step outstanding
\* per channel the replies taken are the step replies, and when close is sent
\* every channel is empty but for the close command, which is therefore the
\* next command each worker reads after its step.
C11_CloseDrainsThenCloses ==
    [][ /\ (UseSub /\ pc = "idle" /\ waiting /\ ~closed
              /\ lastCall' = "close" /\ ncalls' = ncalls + 1)
            => (pc' = "close_drain" /\ idx' = 1 /\ UNCHANGED <<toWorker, toOrch>>)
        /\ (UseSub /\ pc = "close_drain")
            => /\ \A i \in Envs : CloseSent(i) = 0
               /\ pc' \in {"close_drain", "close_join"}
               /\ idx' # idx =>
                    /\ toOrch[idx] # <<>>
                    /\ toOrch' = [toOrch EXCEPT ![idx] = Tail(@)]
                    /\ IF idx < NumEnvs THEN pc' = "close_drain" /\ idx' = idx + 1
                                        ELSE pc' = "close_join"
               /\ pc' = "close_join" => idx = NumEnvs /\ idx' = 1
        /\ CleanDrain
            => /\ idx' # idx => Len(Head(toOrch[idx])) = 6
               /\ pc' = "close_drain" => CleanDrain'
               /\ pc' = "close_join"
                    => \A i \in Envs :
                         /\ toOrch'[i] = <<>>
                         /\ toWorker'[i] = <<CloseCmd(i)>>
                         /\ wenv'[i].log # <<>> ]_vars

\* C11 witness: close() called right after the first step_async() has drained
\* the step replies and returned.
C11_Witness ==
    /\ backend = "subproc" /\ lastCall = "close" /\ prevCall = "step_async"
    /\ ncalls = 2 /\ awaitAtCall /\ pc = "idle" /\ closed
    /\ \A i \in Envs : toOrch[i] = <<>> /\ wenv[i].log = <<"step", "close">>

\* C12: channel discipline: in every reachable state each channel carries at
\* most one request whose reply has not been received.
C12_NoPipelining ==
    UseSub => \A i \in Envs : Outstanding(i) <= 1

\* C15: reset() called while a step_async() is outstanding cancels the pending
\* step: it returns the reset output of every instance, leaves no reply unread
\* and leaves the environment not awaiting a step_wait().
C15_ResetCancelsPendingStep ==
    (UseSub /\ lastCall = "reset" /\ awaitAtCall /\ pc = "idle")
        => /\ ResetReturned
           /\ \A i \in Envs : toOrch[i] = <<>>
           /\ ~waiting

\* C16: ShareDummyVecEnv.close() is idempotent: no instance has its close
\* invoked more than once.
C16_DummyCloseOnce ==
    backend = "dummy" => \A i \in Envs : envs[i].closes <= 1

\* C20: no partial return: while step_wait() or reset() of the subprocess
\* backend is receiving it has returned nothing and holds one reply per channel
\* already visited; each receive takes the head reply of the next channel; the
\* call returns a batch only at the receive on the last channel, and every
\* field of the batch has exactly one entry per instance.
C20_NoPartialReturn ==
    /\ [](UseSub /\ pc \in {"step_wait", "reset"}
            => ret = NoRet /\ Len(acc) = idx - 1 /\ idx \in Envs)
    /\ [][ (UseSub /\ pc \in {"step_wait", "reset"})
            => /\ idx' = idx + 1
                    => /\ pc' = pc /\ toOrch[idx] # <<>>
                       /\ acc' = Append(acc, Head(toOrch[idx]))
                       /\ toOrch' = [toOrch EXCEPT ![idx] = Tail(@)]
               /\ ret'.kind = "ok"
                    => /\ pc' = "idle" /\ idx = NumEnvs /\ toOrch[idx] # <<>>
                       /\ toOrch' = [toOrch EXCEPT ![idx] = Tail(@)]
                       /\ DOMAIN ret'.val = 1..(IF pc = "reset" THEN 3 ELSE 6)
                       /\ \A k \in DOMAIN ret'.val :
                            /\ DOMAIN ret'.val[k] = Envs
                            /\ \A i \in Envs :
                                 ret'.val[k][i] = Append(acc, Head(toOrch[idx]))[i][k] ]_vars

\* C20 witness: a step_wait() and then a reset() have each returned a batch on
\* the subprocess backend.
C20_Witness ==
    /\ backend = "subproc" /\ pc = "idle" /\ ncalls = 3
    /\ prevCall = "step_wait" /\ lastCall = "reset" /\ ResetReturned
    /\ \A i \in Envs : wenv[i].log = <<"step", "reset">>

\* ------------------------------------------------ claims on the worker loop
\* Worker i reads a command in this step; the command it reads.
Reads(i) == Len(toWorker'[i]) < Len(toWorker[i])
Cmd(i) == Head(toWorker[i])

\* Worker i sends exactly one reply, or none, in this step.
OneReply(i) ==
    /\ Len(toOrch'[i]) = Len(toOrch[i]) + 1
    /\ SubSeq(toOrch'[i], 1, Len(toOrch[i])) = toOrch[i]
NoReply(i) == Len(toOrch'[i]) = Len(toOrch[i]) /\ toOrch'[i] = toOrch[i]

\* The worker's process ended on an exception.
Crashed(st) == st \in {"NotImplementedError", "AttributeError", "EnvError", "EnvErrorHeld"}

\* C13 as stated: every command a worker processes other than close produces
\* exactly one reply before the worker reads its next command, and close
\* produces none.
C13_EveryCommandReplies ==
    [][ \A i \in Envs :
          (Reads(i) /\ ~Crashed(wstate'[i]))
            => /\ Len(toWorker'[i]) = Len(toWorker[i]) - 1
               /\ IF Cmd(i).tag = "close" THEN NoReply(i) ELSE OneReply(i) ]_vars

\* C13 amended: an iteration of the worker loop reads one command and, when its
\* handler completes, sends exactly one reply, except for close and for render
\* with a mode other than "rgb_array", which send none; an iteration that ends
\* in an exception sends none either.
C13_RepliesExceptCloseAndPlainRender ==
    [][ \A i \in Envs :
          Reads(i)
            => /\ Len(toWorker'[i]) = Len(toWorker[i]) - 1
               /\ IF Crashed(wstate'[i]) \/ Cmd(i).tag = "close" THEN NoReply(i)
                  ELSE IF Cmd(i).tag = "render"
                       THEN IF Cmd(i).data = "rgb_array" THEN OneReply(i)
                                                         ELSE NoReply(i)
                       ELSE OneReply(i) ]_vars

\* C13 witness: one worker has processed render("human") and sent nothing, the
\* other has processed a step and sent its one reply.
C13_Witness ==
    /\ backend = "worker"
    /\ wenv[1].log = <<"render">> /\ toWorker[1] = <<>> /\ toOrch[1] = <<>>
    /\ toWorker[2] = <<>> /\ wenv[2].log = <<"step">> /\ Len(toOrch[2]) = 1

\* C17: the close command is terminal for a worker: the iteration that reads it
\* closes the instance once, sends nothing and leaves the loop with the channel
\* end closed; from then on the worker reads no command, sends no reply and
\* never touches its instance again.
C17_CloseIsTerminal ==
    /\ [](\A i \in Envs : wstate[i] = "exited" => wenv[i].closes = 1)
    /\ [][ \A i \in Envs :
             /\ (Reads(i) /\ Cmd(i).tag = "close")
                  => /\ wstate'[i] = "exited" /\ NoReply(i)
                     /\ wenv'[i] = EnvClose(wenv[i])
             /\ wstate[i] = "exited"
                  => /\ wstate'[i] = "exited" /\ ~Reads(i) /\ NoReply(i)
                     /\ wenv'[i] = wenv[i] ]_vars

\* C17 witness: a worker has left its loop on close with a later command still
\* unread on its channel.
C17_Witness ==
    /\ backend = "worker" /\ wstate[1] = "exited" /\ wenv[1].log = <<"close">>
    /\ Len(toWorker[1]) = 1 /\ toOrch[1] = <<>>

\* C19: a command with an unknown tag ends the worker's loop with the
\* unsupported-command error: the iteration sends no reply, leaves the instance
\* alone and changes nothing of any other worker; afterwards that worker reads
\* no command and sends nothing.
C19_UnknownTagEndsWorker ==
    [][ \A i \in Envs :
          /\ (Reads(i) /\ Cmd(i).tag \notin KnownTags)
               => /\ wstate'[i] = "NotImplementedError" /\ NoReply(i)
                  /\ wenv'[i] = wenv[i]
                  /\ \A j \in Envs \ {i} :
                       /\ wstate'[j] = wstate[j] /\ wenv'[j] = wenv[j]
                       /\ ~Reads(j) /\ NoReply(j)
          /\ Crashed(wstate[i])
               => /\ wstate'[i] = wstate[i] /\ ~Reads(i) /\ NoReply(i)
                  /\ wenv'[i] = wenv[i] ]_vars

\* C19 witness: a worker has died on an unknown tag, with no reply sent and a
\* later command left unread on its channel.
C19_Witness ==
    /\ backend = "worker" /\ wstate[1] = "NotImplementedError"
    /\ wenv[1] = EnvNew /\ toOrch[1] = <<>> /\ Len(toWorker[1]) = 1
    /\ wstate[2] = "running"

\* C18: shutdown liveness: on the subprocess backend, with fair workers, a
\* close() that was called, from the idle state or while a step is awaited,
\* eventually returns with every worker terminated and closed set.
C18_CloseTerminates ==
    (UseSub /\ lastCall = "close")
        ~> (pc = "idle" /\ lastCall = "close" /\ ret = Ok(<<>>) /\ closed
              /\ \A i \in Envs : wstate[i] = "exited")

\* C18 witness: a close() called in the idle state, after a completed step,
\* has returned with every worker terminated.
C18_Witness ==
    /\ backend = "subproc" /\ lastCall = "close" /\ prevCall = "step_wait"
    /\ ~awaitAtCall /\ pc = "idle" /\ closed /\ ret = Ok(<<>>)
    /\ \A i \in Envs : wstate[i] = "exited" /\ wenv[i].closes = 1

\* C14: padding round-trip: the output of stack_padded_tensors_last_axis is
\* rectangular, one row of max-size entries per input tensor; for input k the
\* first size_k entries along the last axis are the original values and every
\* entry beyond them is the fill value, 0 when none is given; a tensor of
\* maximum size, and the tensor of a one-element sequence, comes back unpadded.
C14_PaddingRoundTrip ==
    padOut # <<>> =>
        LET n == Len(padIn)
            rows == Len(padIn[1])
            mx == MaxOf({Len(padIn[k][1]) : k \in 1..n})
            fill == IF padArgs = <<>> THEN 0 ELSE padArgs[1]
        IN /\ DOMAIN padOut = 1..rows
           /\ \A b \in 1..rows :
                /\ DOMAIN padOut[b] = 1..n
                /\ \A k \in 1..n :
                     LET size == Len(padIn[k][b])
                     IN /\ DOMAIN padOut[b][k] = 1..mx
                        /\ \A m \in 1..mx :
                             padOut[b][k][m] = IF m <= size THEN padIn[k][b][m] ELSE fill
                        /\ (size = mx \/ n = 1) => padOut[b][k] = padIn[k][b]

\* C14 witness: tensors of last extents 3, 5 and 2 were stacked with the default
\* fill.
C14_Witness ==
    /\ backend = "pad" /\ padOut # <<>> /\ padArgs = <<>>
    /\ Len(padIn) = 3 /\ Len(padIn[1]) = 2
    /\ Len(padIn[1][1]) = 3 /\ Len(padIn[2][1]) = 5 /\ Len(padIn[3][1]) = 2

\* The reply channel i contributes to the step_wait() in progress: the one
\* already received, or the oldest one unread, or the one the worker will send
\* for the oldest command it has not read yet.
FinalReply(i) ==
    IF i < idx THEN acc[i]
    ELSE IF toOrch[i] # <<>> THEN Head(toOrch[i])
    ELSE IF toWorker[i] = <<>> THEN <<>>
    ELSE IF Head(toWorker[i]).tag = "step"
         THEN WorkerStepExec(i, wenv[i], Head(toWorker[i]).data).reply
         ELSE WorkerResetExec(i, wenv[i]).reply

\* C21: completion-order independence: while a step_wait() that follows a
\* step_async() is receiving, in every state of every interleaving of the
\* workers the batch it is going to return is the one fixed when the step was
\* sent, and so is the batch returned; the orchestrator takes replies only from
\* the channel whose turn it is, in channel index order, whichever workers have
\* answered already.
C21_CompletionOrderIndependent ==
    /\ [](( /\ UseSub /\ expect.kind = "ok"
            /\ lastCall = "step" \/ (lastCall = "step_wait" /\ prevCall = "step_async"))
           => /\ pc = "step_wait" => Unzip([i \in Envs |-> FinalReply(i)], 6) = expect
              /\ pc = "idle" => ret = expect)
    /\ [][ (UseSub /\ pc = "step_wait")
            => \A i \in Envs :
                 Len(toOrch'[i]) < Len(toOrch[i])
                    => i = idx /\ (idx' = idx + 1 \/ (idx = NumEnvs /\ pc' = "idle")) ]_vars

\* C21 witness: step_wait() is blocked on channel 1 while the last worker has
\* answered already; and the call goes on to return.
C21_Witness ==
    /\ backend = "subproc" /\ pc = "step_wait" /\ idx = 1 /\ expect.kind = "ok"
    /\ lastCall = "step_wait" /\ prevCall = "step_async"
    /\ toOrch[1] = <<>> /\ toWorker[1] # <<>>
    /\ toOrch[NumEnvs] # <<>>

\* Step commands sent on channel i whose replies the orchestrator has not
\* received: unread step commands plus unread step replies.
StepsInFlight(i) ==
    Len(SelectSeq(toWorker[i], LAMBDA c : c.tag = "step")) + PendingSteps(i)

\* C22: the awaiting flag: waiting is true exactly when step commands have been
\* sent and their replies have not yet been received by the orchestrator.
C22_WaitingIffStepInFlight ==
    (UseSub /\ pc = "idle") => (waiting <=> \E i \in Envs : StepsInFlight(i) > 0)

\* C23: step_async(actions) on the subprocess backend with its workers alive
\* appends one step command to every channel, channel i carrying actions[i],
\* receives nothing, touches no instance and returns at once; called with
\* nothing in flight it leaves every worker exactly one step command to answer,
\* and the step_wait() that follows returns a batch of N replies.
C23_StepAsyncSendsOnePerChannel ==
    /\ [](( /\ UseSub /\ pc = "idle" /\ lastCall = "step_wait"
            /\ prevCall = "step_async" /\ expect.kind = "ok")
           => StepReturned /\ \A k \in 1..6 : DOMAIN ret.val[k] = Envs)
    /\ [][ ( /\ UseSub /\ pc = "idle" /\ \A i \in Envs : Running(i)
             /\ lastCall' = "step_async" /\ ncalls' = ncalls + 1 )
            => /\ \E a \in Batches : \A i \in Envs :
                    /\ toWorker'[i] = Append(toWorker[i], [tag |-> "step", data |-> a[i]])
                    /\ Quiet => toWorker'[i] = <<[tag |-> "step", data |-> a[i]]>>
               /\ Quiet => \A i \in Envs : Outstanding(i)' = 1 /\ PendingSteps(i)' = 1
               /\ UNCHANGED <<toOrch, wenv, wstate, acc>>
               /\ pc' = "idle" /\ ret' = Ok(<<>>) ]_vars

\* C23 witness: step_async() has just returned from a state with nothing in
\* flight: one unread step command per channel, no reply received.
C23_Witness ==
    /\ backend = "subproc" /\ pc = "idle" /\ lastCall = "step_async" /\ ~awaitAtCall
    /\ ret = Ok(<<>>) /\ waiting
    /\ \A i \in Envs : Len(toWorker[i]) = 1 /\ toOrch[i] = <<>> /\ wenv[i] = EnvNew

\* C24: worker failure is not masked: the iteration in which the instance's
\* step or reset raises sends no reply and ends the worker; a worker that ended
\* so stays ended, reads no command again (nothing is retried) and sends
\* nothing; a step_wait() or reset() whose turn is on the channel of a dead
\* worker with no reply to read either stays where it is or raises EOFError,
\* and a batch is only ever returned after a reply was read from every channel.
C24_WorkerFailureNotMasked ==
    [][ /\ \A i \in Envs :
             /\ WorkerFails(i)
                  => /\ Reads(i) /\ NoReply(i) /\ ~Running(i)'
                     /\ wstate'[i] \in {"EnvError", "EnvErrorHeld"}
             /\ wstate[i] \in {"EnvError", "EnvErrorHeld"}
                  => /\ wstate'[i] = wstate[i] /\ ~Reads(i)
                     /\ Len(toOrch'[i]) <= Len(toOrch[i])
                     /\ wenv'[i] = wenv[i]
        /\ ( /\ pc \in {"step_wait", "reset"}
             /\ wstate[idx] \in {"EnvError", "EnvErrorHeld"} /\ toOrch[idx] = <<>> )
            => \/ pc' = pc /\ idx' = idx /\ acc' = acc /\ ret' = ret
               \/ wstate[idx] = "EnvError" /\ pc' = "idle" /\ ret' = Raise("EOFError")
        /\ (pc \in {"step_wait", "reset"} /\ ret'.kind = "ok")
            => /\ idx = NumEnvs /\ Len(acc) = NumEnvs - 1 /\ toOrch[idx] # <<>>
               /\ \A k \in DOMAIN ret'.val : DOMAIN ret'.val[k] = Envs ]_vars

\* C24 witness: a worker died in its instance's step and the step_wait() that
\* was to collect its reply raised instead of returning a batch, the reply of
\* the other worker left unread.
C24_Witness ==
    /\ pc = "idle" /\ lastCall = "step_wait" /\ prevCall = "step_async"
    /\ wstate[1] = "EnvError" /\ wstate[NumEnvs] = "running"
    /\ ret = Raise("EOFError") /\ toOrch[1] = <<>> /\ toOrch[NumEnvs] # <<>>

\* The number of env.step calls an instance has had.
StepCalls(e) == Len(SelectSeq(e.log, LAMBDA x : x = "step"))

\* C25: ShareDummyVecEnv.step_async stores the action batch and changes nothing
\* else: no instance changes before step_wait. step_wait on a stored batch
\* steps every instance exactly once, instance i with the stored action i,
\* returns the batch and leaves the stored batch empty (None).
C25_DummyStepAsyncOnlyStores ==
    [][ (backend = "dummy" /\ ncalls' = ncalls + 1)
          => /\ lastCall' = "step_async"
                  => /\ envs' = envs
                     /\ \E a \in Batches : actions' = <<a>>
             /\ (lastCall' = "step_wait" /\ actions # <<>>)
                  => /\ actions' = <<>>
                     /\ d_ret'.kind = "ok" /\ DOMAIN d_ret'.val = 1..6
                     /\ \A i \in Envs :
                          /\ StepCalls(envs'[i]) = StepCalls(envs[i]) + 1
                          /\ envs'[i].closes = envs[i].closes
                          /\ d_ret'.val[3][i].act = actions[1][i]
                          /\ d_ret'.val[3][i].inst = i ]_vars

\* C25 witness: a step_wait() on a stored batch has returned, the batch having
\* been stored by a step_async() that left every instance untouched.
C25_Witness ==
    /\ backend = "dummy" /\ lastCall = "step_wait" /\ prevCall = "step_async"
    /\ ncalls = 2 /\ actions = <<>> /\ d_ret.kind = "ok"
    /\ \A i \in Envs : envs[i].log = <<"step">>

\* C26: construction of ShareSubprocVecEnv: while the constructor runs, only
\* the channel of worker 0 carries anything, first the get_num_agents exchange
\* and then the get_spaces exchange, one message at a time; when it has
\* returned, n_agents and the three spaces are those of worker 0's instance,
\* every channel is empty, every worker runs with its instance untouched,
\* waiting is false and closed is false.
C26_ConstructorQueriesWorker0 ==
    backend = "ctor" =>
        /\ \A i \in Envs \ {1} : toWorker[i] = <<>> /\ toOrch[i] = <<>>
        /\ \A i \in Envs : wenv[i] = EnvNew /\ wstate[i] = "running"
        /\ pc = "ctor_num_agents"
             => /\ Outstanding(1) = 1 /\ n_agents = 0 /\ spaces = <<>>
                /\ toWorker[1] # <<>> => Head(toWorker[1]).tag = "get_num_agents"
                /\ toOrch[1] # <<>> => Head(toOrch[1]) = <<EnvNAgents(wkind[1])>>
        /\ pc = "ctor_spaces"
             => /\ Outstanding(1) = 1 /\ n_agents = EnvNAgents(wkind[1]) /\ spaces = <<>>
                /\ toWorker[1] # <<>> => Head(toWorker[1]).tag = "get_spaces"
                /\ toOrch[1] # <<>> => Head(toOrch[1]) = EnvSpaces(wkind[1])
        /\ pc = "idle"
             => /\ n_agents = EnvNAgents(wkind[1]) /\ spaces = EnvSpaces(wkind[1])
                /\ \A i \in Envs : Outstanding(i) = 0
                /\ ~waiting /\ ~closed
        /\ pc \in {"ctor_start", "ctor_num_agents", "ctor_spaces", "idle"}

\* C26 witness: the constructor has returned over instances of different
\* kinds, with what worker 0 answered.
C26_Witness ==
    /\ backend = "ctor" /\ pc = "idle"
    /\ wkind[1] # wkind[NumEnvs]
    /\ n_agents = wkind[1] /\ spaces = EnvSpaces(wkind[1])

\* The orchestrator is blocked on worker i: in a recv on its channel with no
\* reply there, or in the join of its process while it runs.
OrchWaitsOn(i) ==
    \/ pc \in {"step_wait", "reset", "close_drain"} /\ RecvChan(idx) = i /\ toOrch[i] = <<>>
    \/ pc = "close_join" /\ idx = i /\ Running(i)

\* Worker i is blocked in its recv (or is gone): it has no command to read.
WorkerWaits(i) == ~Running(i) \/ toWorker[i] = <<>>

\* C27: deadlock freedom under disciplined use: with reset first, then
\* step_async/step_wait pairs or resets, then close, and fair workers, the
\* orchestrator and a worker never wait on each other, no call raises, and
\* every call that was entered eventually returns.
C27_DisciplinedUseNeverDeadlocks ==
    /\ [](\A i \in Envs : ~(OrchWaitsOn(i) /\ WorkerWaits(i)))
    /\ [](ret.kind # "error")
    /\ (pc # "idle") ~> (pc = "idle" /\ ret.kind = "ok")

\* C27 witness: a whole disciplined run has returned from its close: reset, a
\* step_async/step_wait pair, close.
C27_Witness ==
    /\ backend = "subproc" /\ ncalls = MaxDiscCalls
    /\ lastCall = "close" /\ prevCall = "step_wait"
    /\ pc = "idle" /\ ret = Ok(<<>>) /\ closed
    /\ \A i \in Envs : wstate[i] = "exited" /\ Outstanding(i) = 0

\* C28: no use after close: once close() has returned on the subprocess
\* backend (closed is set, every worker has terminated), no later call sends
\* to a terminated worker (the send raises BrokenPipeError) or sits in a recv
\* on a terminated worker's channel (the recv raises EOFError).
C28_NoUseAfterClose ==
    (UseSub /\ closed) => (pc = "idle" /\ ret.kind # "error")

\* C29: the MujocoMulti step counter: once reset has assigned it, steps is the
\* number of step() calls since the last reset(); inside a worker, which
\* resets the instance after a done step, with the time limit reporting done
\* at episode_limit steps, steps never exceeds episode_limit.
C29_StepCounter ==
    backend = "mujoco" =>
        \A i \in Envs :
            menv[i].steps # Unset =>
                /\ menv[i].steps = m_since[i]
                /\ menv[i].steps = menv[i].elapsed
                /\ menv[i].steps <= EpisodeLimit
                /\ m_out[i].kind = "step" /\ Terminated(m_out[i].done)
                     => menv[i].steps = 0

\* C29 witness: the step that reached the time limit has been answered and the
\* worker has reset the instance: the counter is back at 0.
C29_Witness ==
    /\ backend = "mujoco" /\ m_out[1].kind = "step" /\ Terminated(m_out[1].done)
    /\ m_out[1].info.truncated = "True" /\ m_out[1].info.originals
    /\ menv[1].steps = 0 /\ m_since[1] = 0 /\ m_n[1] > EpisodeLimit

\* C30: bad_transition: a step() that returned has set info["bad_transition"]
\* exactly when the wrapped environment reported done; it is True when the
\* number of steps since the last reset has reached episode_limit and False
\* when the episode ended earlier.
C30_BadTransitionOnlyOnDone ==
    backend = "mujoco" =>
        \A i \in Envs :
            m_out[i].kind = "step" =>
                /\ menv[i].steps = m_since[i]
                /\ IF Terminated(m_out[i].done)
                   THEN m_out[i].info.bad_transition = PyBool(m_since[i] >= EpisodeLimit)
                   ELSE m_out[i].info.bad_transition = "absent"

\* C30 witness: the step that reached episode_limit returned done with
\* bad_transition True, after an episode that ended earlier.
C30_Witness ==
    /\ backend = "mujoco" /\ m_out[1].kind = "step" /\ Terminated(m_out[1].done)
    /\ m_since[1] = EpisodeLimit /\ m_n[1] > EpisodeLimit + 1
    /\ m_out[1].info.bad_transition = "True"

\* C31: MujocoMulti.step returns done as a list of n_agents entries that all
\* equal the wrapped environment's done flag, and every agent the wrapped
\* environment's reward; so the list is never partially done, and the worker
\* has reset the instance after a step exactly when the wrapped environment
\* reported done on that step.
C31_UniformDoneAutoReset ==
    backend = "mujoco" =>
        \A i \in Envs :
            m_out[i].kind = "step" =>
                /\ m_out[i].done.kind = "peragent"
                /\ DOMAIN m_out[i].done.v = Agents
                /\ \A a \in Agents : m_out[i].done.v[a] = m_wrapped[i].done
                /\ DOMAIN m_out[i].rewards = Agents
                /\ \A a \in Agents : m_out[i].rewards[a] = <<m_wrapped[i].reward>>
                /\ m_out[i].info.originals <=> m_wrapped[i].done
                /\ IF m_wrapped[i].done
                   THEN menv[i].steps = 0 /\ menv[i].elapsed = 0 /\ m_since[i] = 0
                   ELSE /\ menv[i].steps = m_wrapped[i].reward
                        /\ menv[i].elapsed = menv[i].steps /\ m_since[i] = menv[i].steps

\* C31 witness: the wrapped environment ended an episode before the time
\* limit on the second step after a reset; every agent's done is true and the
\* worker has reset the instance.
C31_Witness ==
    /\ backend = "mujoco" /\ m_out[1].kind = "step"
    /\ m_wrapped[1].done /\ m_wrapped[1].reward = EpisodeLimit
    /\ \A a \in Agents : m_out[1].done.v[a]
    /\ m_out[1].info.originals /\ menv[1].steps = 0

====
